---- MODULE Spec2Model ----
(***************************************************************************)
(* A model of tmpdir.TmpDir (src/tmpdir.py): a temporary directory that is *)
(* created inside a mkdtemp() container, optionally filled from an archive *)
(* (load) and erased on close() under a deletion policy.                   *)
(*                                                                         *)
(* Path strings are modelled as sequences of one-character strings, so     *)
(* that os.path.join, os.path.abspath, os.path.split and                   *)
(* os.path.commonprefix work on characters exactly as posixpath does.      *)
(***************************************************************************)
EXTENDS Integers, Sequences, FiniteSets, TLC

VARIABLES
    fs,         \* the filesystem: absolute normalized path -> node
    cwd,        \* the process working directory (os.getcwd())
    srm,        \* whether the external `srm` command is installed
    obj,        \* "none": no TmpDir yet; "partial": __init__ raised; "ready": the caller
                \* holds the instance; "orphan": load raised after building it
    closed,     \* self.closed
    deletion,   \* self.deletion
    path,       \* self.path
    outer_path, \* self.__outer_path
    pc,         \* position inside close(): "idle" when no call is in progress
    tmp_path,   \* close()'s local tmp_path
    old_path,   \* the value of self.path when the running close() started
    nerase,     \* how many times a close() has reached its erasure calls
    log,        \* filesystem / subprocess calls made by the current (or last) operation
    last,       \* the last operation called and how it ended
    inwith,     \* whether a "with d:" block on the instance is running
    dumped,     \* what the last dump() wrote to its stream
    mgrs,       \* the WorkingDirectoryContextManager objects: path, previous_paths
    scopes,     \* the as_cwd scopes that are entered, innermost last
    stream,     \* the file object handed to sniff_archive_type
    sniffed,    \* what the last sniffing of stream returned
    tree,       \* the filesystem pseudosecure_delete_directory works on
    tree0,      \* that filesystem when the call started
    phase,      \* the loop of pseudosecure_delete_directory that is running
    walker,     \* the position of the running os.walk
    events,     \* the calls pseudosecure_delete_directory has made
    zero        \* the overwrite loop of one file

\* the instance and its filesystem
lifeVars == <<fs, cwd, srm, obj, closed, deletion, path, outer_path, pc, tmp_path,
              old_path, nerase, log, last, inwith, dumped>>

\* working-directory scopes
scopeVars == <<mgrs, scopes>>

\* archive type detection
sniffVars == <<stream, sniffed>>

\* pseudo-secure erasure
eraseVars == <<tree, tree0, phase, walker, events>>

\* what the operations on the instance leave alone
otherVars == <<scopeVars, sniffVars, eraseVars, zero>>

vars == <<lifeVars, otherVars>>

-----------------------------------------------------------------------------
(* Characters and strings *)

EMPTY == <<>>
SLASH == <<"/">>
DOT == <<".">>
DOTDOT == <<".", ".">>

Min(a, b) == IF a <= b THEN a ELSE b

StartsWith(s, p) == Len(p) <= Len(s) /\ SubSeq(s, 1, Len(p)) = p

EndsWith(s, p) == Len(p) <= Len(s) /\ SubSeq(s, Len(s) - Len(p) + 1, Len(s)) = p

\* str.split("/")
RECURSIVE StrSplit(_)
StrSplit(s) ==
    LET Cut(i) == <<SubSeq(s, 1, i - 1)>> \o StrSplit(SubSeq(s, i + 1, Len(s)))
    IN  IF \E i \in 1..Len(s) : s[i] = "/"
        THEN Cut(CHOOSE k \in 1..Len(s) : s[k] = "/" /\ \A j \in 1..(k - 1) : s[j] # "/")
        ELSE <<s>>

\* "/".join(comps)
RECURSIVE StrJoin(_)
StrJoin(comps) ==
    IF comps = <<>> THEN EMPTY
    ELSE IF Len(comps) = 1 THEN comps[1]
    ELSE comps[1] \o SLASH \o StrJoin(Tail(comps))

\* s.rstrip("/")
RECURSIVE RStripSlash(_)
RStripSlash(s) ==
    IF s # EMPTY /\ s[Len(s)] = "/" THEN RStripSlash(SubSeq(s, 1, Len(s) - 1)) ELSE s

\* s.rfind("/") + 1
RFindSlash1(s) ==
    IF \E i \in 1..Len(s) : s[i] = "/"
    THEN CHOOSE k \in 1..Len(s) : s[k] = "/" /\ \A j \in (k + 1)..Len(s) : s[j] # "/"
    ELSE 0

-----------------------------------------------------------------------------
(* posixpath *)

\* os.path.isabs
IsAbs(s) == StartsWith(s, SLASH)

\* os.path.join(a, b)
PathJoin(a, b) ==
    IF IsAbs(b) THEN b
    ELSE IF a = EMPTY \/ EndsWith(a, SLASH) THEN a \o b
    ELSE a \o SLASH \o b

\* the loop of os.path.normpath over the split components
RECURSIVE NormComps(_, _, _)
NormComps(comps, acc, initial) ==
    LET Step(c, rest) ==
            IF c = EMPTY \/ c = DOT THEN NormComps(rest, acc, initial)
            ELSE IF \/ c # DOTDOT
                    \/ (initial = 0 /\ acc = <<>>)
                    \/ (acc # <<>> /\ acc[Len(acc)] = DOTDOT)
                 THEN NormComps(rest, Append(acc, c), initial)
            ELSE IF acc # <<>> THEN NormComps(rest, SubSeq(acc, 1, Len(acc) - 1), initial)
            ELSE NormComps(rest, acc, initial)
    IN  IF comps = <<>> THEN acc ELSE Step(Head(comps), Tail(comps))

\* os.path.normpath
NormPath(s) ==
    LET Result(res) == IF res = EMPTY THEN DOT ELSE res
        Build(initial) ==
            Result([i \in 1..initial |-> "/"]
                   \o StrJoin(NormComps(StrSplit(s), <<>>, initial)))
    IN  IF s = EMPTY THEN DOT
        ELSE Build(IF ~StartsWith(s, SLASH) THEN 0
                   ELSE IF StartsWith(s, <<"/", "/">>) /\ ~StartsWith(s, <<"/", "/", "/">>)
                        THEN 2
                   ELSE 1)

\* os.path.abspath(s) with the working directory d
AbsPath(d, s) == NormPath(IF IsAbs(s) THEN s ELSE PathJoin(d, s))

\* os.path.commonprefix((a, b)): the longest common prefix, character by character
CommonPrefix(a, b) ==
    LET Upto(m) == CHOOSE k \in 0..m : /\ \A i \in 1..k : a[i] = b[i]
                                       /\ (k = m \/ a[k + 1] # b[k + 1])
    IN  SubSeq(a, 1, Upto(Min(Len(a), Len(b))))

\* os.path.split(s): <<head, tail>>
PathSplit(s) ==
    LET Fix(head, stripped, tail) ==
            IF head # EMPTY /\ stripped # EMPTY THEN <<stripped, tail>> ELSE <<head, tail>>
        At(i) == Fix(SubSeq(s, 1, i), RStripSlash(SubSeq(s, 1, i)), SubSeq(s, i + 1, Len(s)))
    IN  At(RFindSlash1(s))

-----------------------------------------------------------------------------
(* The filesystem.  A node is a directory, a regular file with its bytes,  *)
(* or a symbolic link with its (absolute) target.                          *)

DirNode == [kind |-> "dir", data |-> EMPTY]
FileNode(bytes) == [kind |-> "file", data |-> bytes]
LinkNode(target) == [kind |-> "link", data |-> target]

\* q is p or lies beneath p, component by component
Under(q, p) ==
    \/ q = p
    \/ (p = SLASH /\ IsAbs(q))
    \/ StartsWith(q, p \o SLASH)

Parent(q) == PathSplit(q)[1]

Children(f, p) == {q \in DOMAIN f : q # p /\ Parent(q) = p}

Tree(f, p) == {q \in DOMAIN f : Under(q, p)}

\* a node that is a directory, or a symbolic link that leads to one
IsDirNode(f, q) ==
    /\ q \in DOMAIN f
    /\ \/ f[q].kind = "dir"
       \/ (f[q].kind = "link" /\ f[q].data \in DOMAIN f /\ f[f[q].data].kind = "dir")

\* the directory a node stands for (a link's target)
DirOf(f, q) == IF f[q].kind = "link" THEN f[q].data ELSE q

\* f with node n put at path q
Put(f, q, n) == [x \in DOMAIN f \cup {q} |-> IF x = q THEN n ELSE f[x]]

\* Kernel path resolution of string s from directory cur: every component
\* but the last must lead to a directory; symbolic links are followed and
\* ".." is the physical parent.  EMPTY when the walk fails.
RECURSIVE WalkComps(_, _, _)
WalkComps(f, cur, comps) ==
    LET Step(c, rest, p) ==
            IF c = EMPTY \/ c = DOT THEN WalkComps(f, cur, rest)
            ELSE IF c = DOTDOT THEN WalkComps(f, Parent(cur), rest)
            ELSE IF rest = <<>> THEN p
            ELSE IF IsDirNode(f, p) THEN WalkComps(f, DirOf(f, p), rest)
            ELSE EMPTY
    IN  IF comps = <<>> THEN cur
        ELSE Step(Head(comps), Tail(comps), PathJoin(cur, Head(comps)))

Walk(f, d, s) == WalkComps(f, IF IsAbs(s) THEN SLASH ELSE d, StrSplit(s))

\* os.path.exists(s) with working directory d
OsExists(f, d, s) ==
    LET At(p) == /\ p # EMPTY
                 /\ p \in DOMAIN f
                 /\ (f[p].kind = "link" => f[p].data \in DOMAIN f)
    IN  At(Walk(f, d, s))

\* os.mkdir(s) with working directory d: [ok, eexist, fs]
OsMkdir(f, d, s) ==
    LET At(p) ==
            IF p # EMPTY /\ p \in DOMAIN f
            THEN [ok |-> FALSE, eexist |-> TRUE, fs |-> f]
            ELSE IF p = EMPTY \/ ~IsDirNode(f, Parent(p))
            THEN [ok |-> FALSE, eexist |-> FALSE, fs |-> f]
            ELSE [ok |-> TRUE, eexist |-> FALSE, fs |-> Put(f, p, DirNode)]
    IN  At(Walk(f, d, s))

\* os.makedirs(s) with working directory d: [ok, eexist, fs]
RECURSIVE OsMakedirs(_, _, _)
OsMakedirs(f, d, s) ==
    LET Last(r, tail) ==
            IF ~r.ok /\ ~r.eexist THEN r
            ELSE IF tail = DOT THEN [ok |-> TRUE, eexist |-> FALSE, fs |-> r.fs]
            ELSE OsMkdir(r.fs, d, s)
        Branch(head, tail, need) ==
            Last(IF need THEN OsMakedirs(f, d, head)
                 ELSE [ok |-> TRUE, eexist |-> FALSE, fs |-> f],
                 IF need THEN tail ELSE EMPTY)
        Go(head, tail) ==
            Branch(head, tail, head # EMPTY /\ tail # EMPTY /\ ~OsExists(f, d, head))
        Pick(sp) == IF sp[2] = EMPTY THEN Go(PathSplit(sp[1])[1], PathSplit(sp[1])[2])
                    ELSE Go(sp[1], sp[2])
    IN  Pick(PathSplit(s))

\* shutil.rmtree(p) / srm -rf p: the node and everything beneath it goes;
\* symbolic links are removed, not followed
RemoveTree(f, p) == [q \in DOMAIN f \ Tree(f, p) |-> f[q]]

\* a copy in place of the rename: the tree appears at dst and stays at src
OsRenameKeepsSource(f, src, dst) ==
    [q \in DOMAIN f \cup {dst \o SubSeq(x, Len(src) + 1, Len(x)) : x \in Tree(f, src)} |->
        IF Under(q, dst) /\ Tree(f, src) # {}
        THEN f[src \o SubSeq(q, Len(dst) + 1, Len(q))]
        ELSE f[q]]

\* os.rename(src, dst) of a directory onto an unused name (or an empty
\* directory): the whole tree moves
OsRename(f, src, dst) ==
    [q \in ((DOMAIN f \ Tree(f, src)) \ {dst})
           \cup {dst \o SubSeq(x, Len(src) + 1, Len(x)) : x \in Tree(f, src)} |->
        IF Under(q, dst) THEN f[src \o SubSeq(q, Len(dst) + 1, Len(q))] ELSE f[q]]

-----------------------------------------------------------------------------
(* Erasure *)

\* b"\x00" * n
Zeros(n) == [i \in 1..n |-> "0"]

\* subprocess.check_call(["srm", "-rfs", "--", p]) when it exits 0
SrmDelete(f, p) == RemoveTree(f, p)

\* First loop of pseudosecure_delete_directory: every regular file the walk
\* lists (a symbolic link to a file is opened through the link) is
\* overwritten with zeros over its whole length.
ZeroFiles(f, p) ==
    [q \in DOMAIN f |->
        IF /\ f[q].kind = "file"
           /\ \/ Under(q, p)
              \/ \E l \in Tree(f, p) : f[l].kind = "link" /\ f[l].data = q
        THEN FileNode(Zeros(Len(f[q].data)))
        ELSE f[q]]

\* Third loop of pseudosecure_delete_directory, bottom-up (os.walk with
\* topdown=False): when a directory is reached its sub-directories have been
\* emptied; its files are os.remove()d and each entry os.walk listed as a
\* directory is os.rmdir()ed.  os.walk lists a symbolic link to a directory
\* among the directories, does not descend into it, and os.rmdir of a link
\* raises OSError: the walk stops at the first directory D that holds such a
\* link.  listdir order is the system's: D's branch is taken to be listed
\* first, and linkFirst says whether in D the link is listed before the real
\* sub-directories (which then stay, empty) or after them.  Result [ok, fs].
DeleteWalk(f, top, linkFirst) ==
    LET IsLink(k) == f[k].kind = "link" /\ IsDirNode(f, k)
        Stop(D) ==
            [ok |-> FALSE,
             fs |-> [q \in DOMAIN f \
                        {x \in Tree(f, D) :
                            /\ x # D
                            /\ ~(Parent(x) = D /\ IsLink(x))
                            /\ ~(Parent(x) = D /\ linkFirst /\ f[x].kind = "dir")} |-> f[q]]]
        From(holders) ==
            IF holders = {}
            THEN [ok |-> TRUE, fs |-> [q \in (DOMAIN f \ Tree(f, top)) \cup {top} |-> f[q]]]
            ELSE Stop(CHOOSE d \in holders : \A e \in holders : e = d \/ ~Under(e, d))
    IN  From({d \in Tree(f, top) : f[d].kind = "dir" /\ \E k \in Children(f, d) : IsLink(k)})

\* pseudosecure_delete_directory(p): [ok, fs].  The second loop gives every
\* entry a random name; the paths of this model keep standing for the
\* renamed entries, so what is recorded is which entries still exist and
\* what they hold.  The last line is shutil.rmtree(p).
PseudoSecureDelete(f, p, linkFirst) ==
    LET Done(r) == IF r.ok THEN [ok |-> TRUE, fs |-> RemoveTree(r.fs, p)] ELSE r
    IN  Done(DeleteWalk(ZeroFiles(f, p), p, linkFirst))

-----------------------------------------------------------------------------
(* Bounds and the values the environment and the caller supply *)

\* number of names tempfile.mkdtemp() can hand out
MaxTmp == 3
\* longest archive given to load
MaxEntries == 2

TmpLetters == <<"o", "p", "q", "r", "s", "u">>
\* The name mkdtemp() returns, directly under the temp root "/": one that is
\* not in use.  Its names are random
\* and interchangeable (nothing else refers to them), so they are handed out
\* in order; the empty set when the names have run out.
FreshTmp(f) ==
    {<<"/", TmpLetters[i]>> : i \in {j \in 1..MaxTmp :
        /\ <<"/", TmpLetters[j]>> \notin DOMAIN f
        /\ \A k \in 1..(j - 1) : <<"/", TmpLetters[k]>> \in DOMAIN f}}

\* results of rand_name()
RandNames == {<<"R", "1">>, <<"R", "2">>}

S_tmp == <<"t", "m", "p">>
S_etc == <<"/", "e", "t", "c">>
S_passwd == <<"/", "e", "t", "c", "/", "p", "a", "s", "s", "w", "d">>
S_hi == <<"h", "i">>
S_evil == <<"e", "v">>

\* a validation that lets the defaults of TmpDir() and TmpDir.load() pass
ValidDeletionOrDefault ==
    {"secure", "attempt-secure", "pseudo-secure", "not-secure", "False", "None"}

\* the deletion values a caller may pass; "False" and "None" are the
\* defaults of TmpDir() and TmpDir.load()
ValidDeletion == {"secure", "attempt-secure", "pseudo-secure", "not-secure"}
DeletionArgs == ValidDeletion \cup {"False", "None"}

\* inner_name arguments: EMPTY is None
InnerNames == {EMPTY, <<"x", "/", "y">>}

\* Python truth value of a deletion value
Falsy(d) == d \in {"", "False", "None"}

-----------------------------------------------------------------------------
(* TmpDir.__init__ *)

\* an entry of log: one filesystem or subprocess call and whether it succeeded
Call(name, arg, ok) == [call |-> name, arg |-> arg, ok |-> ok]

\* how an operation ended
Outcome(op, result, del, archive, k) ==
    [op |-> op, result |-> result, deletion |-> del, archive |-> archive, k |-> k]

\* a resolution that takes the tool for granted
ResolveDeletionUnprobed(del, tool) ==
    IF del \in {"secure", "attempt-secure"} THEN "secure" ELSE del

\* The policy stored in self.deletion for argument del when the probe
\* "which srm" succeeds (tool) or fails; "raise" when __init__ re-raises.
ResolveDeletion(del, tool) ==
    IF del \in {"secure", "attempt-secure"}
    THEN IF tool THEN "secure"
         ELSE IF del = "attempt-secure" THEN "pseudo-secure"
         ELSE "raise"
    ELSE del

\* the calls of the availability probe for argument del
Probe(del, tool) ==
    IF del \in {"secure", "attempt-secure"} THEN <<Call("which", EMPTY, tool)>> ELSE <<>>

\* tempfile.mkdtemp() returning dir
Mkdtemp(f, dir) == Put(f, dir, DirNode)

\* TmpDir(inner, del) run on filesystem f with working directory d; dir is
\* the name mkdtemp() would return, failstep the call the system refuses.
\* The fields of the (possibly partly built) object and the calls made.
Construct(f, d, inner, del, tool, dir, failstep) ==
    LET base == [result |-> "ok", fs |-> f, closed |-> TRUE, deletion |-> "unset",
                 path |-> EMPTY, outer |-> EMPTY, log |-> <<>>]
        Built(res, probe, p, mk) ==
            IF del \notin ValidDeletion
            THEN [base EXCEPT !.result = "ArgumentError"]
            ELSE IF res = "raise"
            THEN [base EXCEPT !.result = "CalledProcessError", !.log = probe]
            ELSE IF failstep = "mkdtemp"
            THEN [base EXCEPT !.result = "OSError", !.deletion = res,
                              !.log = probe \o <<Call("mkdtemp", EMPTY, FALSE)>>]
            ELSE IF ~mk.ok
            THEN [base EXCEPT !.result = "OSError", !.deletion = res, !.fs = mk.fs,
                              !.path = p, !.outer = dir,
                              !.log = probe \o <<Call("mkdtemp", dir, TRUE),
                                                 Call("mkdir", p, FALSE)>>]
            ELSE [base EXCEPT !.fs = mk.fs, !.closed = FALSE, !.deletion = res,
                              !.path = p, !.outer = dir,
                              !.log = probe \o <<Call("mkdtemp", dir, TRUE),
                                                 Call("mkdir", p, TRUE)>>]
        At(p) ==
            Built(ResolveDeletion(del, tool), Probe(del, tool), p,
                  IF failstep = "mkdir"
                  THEN [ok |-> FALSE, eexist |-> FALSE, fs |-> Mkdtemp(f, dir)]
                  ELSE OsMkdir(Mkdtemp(f, dir), d, p))
    IN  At(AbsPath(d, PathJoin(dir, IF inner = EMPTY THEN S_tmp ELSE inner)))

FailSteps == {"none", "mkdtemp", "mkdir"}

-----------------------------------------------------------------------------------------------------------------------------------------------------
(* WorkingDirectoryContextManager *)

\* WorkingDirectoryContextManager(p): self.path and self.previous_paths
Manager(p) == [path |-> p, previous_paths |-> <<>>]

\* os.chdir(p) from working directory d: [ok, cwd].  The working directory
\* becomes the directory p resolves to.
OsChdir(f, d, p) ==
    LET At(t) == IF t # EMPTY /\ IsDirNode(f, t)
                 THEN [ok |-> TRUE, cwd |-> DirOf(f, t)]
                 ELSE [ok |-> FALSE, cwd |-> d]
    IN  At(Walk(f, d, p))

\* a restore that takes the oldest saved directory
PopFirst(pp) == pp[1]

\* the directory __exit__ goes back to: self.previous_paths.pop()
PopCwd(pp) == pp[Len(pp)]

\* __enter__ of manager m with working directory d: [ok, mgr, cwd].  The
\* working directory is saved before os.chdir is tried.
MgrEnter(f, m, d) ==
    LET Moved(r) == [ok |-> r.ok,
                     mgr |-> [m EXCEPT !.previous_paths = Append(@, d)],
                     cwd |-> r.cwd]
    IN  Moved(OsChdir(f, d, m.path))

\* __exit__ of manager m with working directory d: [ok, mgr, cwd]
MgrExit(f, m, d) ==
    LET Moved(r) == [ok |-> r.ok,
                     mgr |-> [m EXCEPT !.previous_paths = SubSeq(@, 1, Len(@) - 1)],
                     cwd |-> r.cwd]
    IN  Moved(OsChdir(f, d, PopCwd(m.previous_paths)))

-----
(* TmpDir.load *)

Entry(name, kind, data) == [name |-> name, kind |-> kind, data |-> data]

\* the archive members load may meet (file_info.name, type, bytes or link target)
E_f == Entry(<<"f">>, "file", S_hi)
E_ab == Entry(<<"a", "/", "b">>, "file", S_hi)
E_abc == Entry(<<"a", "/", "b", "/", ".", ".", "/", "c">>, "file", S_hi)
E_dotdot == Entry(<<".", ".", "/", "/", "e", "t", "c", "/", "p", "a", "s", "s", "w", "d">>, "file", S_evil)
E_abs == Entry(S_passwd, "file", S_evil)
E_up == Entry(<<"a", "/", ".", ".", "/", ".", ".", "/", "b">>, "file", S_evil)
E_sibling == Entry(<<".", ".", "/", "t", "m", "p", "-", "e", "v", "i", "l", "/", "f">>, "file", S_evil)
E_link == Entry(<<"l", "n">>, "link", S_etc)
E_through == Entry(<<"l", "n", "/", "p", "a", "s", "s", "w", "d">>, "file", S_evil)
E_dir == Entry(<<"a">>, "dir", EMPTY)

EntryPool == {E_f, E_ab, E_abc, E_dotdot, E_abs, E_up, E_sibling, E_link, E_through, E_dir}

Archives == UNION {[1..n -> EntryPool] : n \in 0..MaxEntries}

\* The test load applies to a member name: the absolute form of the name
\* joined to self.path, and os.path.commonprefix of it and self.path
PathAccepted(root, d, name) ==
    CommonPrefix(AbsPath(d, PathJoin(root, name)), root) = root

\* archive.extract(file_info) with working directory d: the member is
\* written at its name, resolved by the kernel.  [ok, fs]
Extract(f, d, e) ==
    LET bad == [ok |-> FALSE, fs |-> f]
        New(q) == IF e.kind = "file" THEN FileNode(e.data)
                  ELSE IF e.kind = "dir" THEN DirNode
                  ELSE LinkNode(e.data)
        At(target) ==
            IF target = EMPTY \/ ~IsDirNode(f, Parent(target)) THEN bad
            ELSE IF target \notin DOMAIN f THEN [ok |-> TRUE, fs |-> Put(f, target, New(target))]
            ELSE IF e.kind = "dir" THEN [ok |-> TRUE, fs |-> f]
            ELSE IF e.kind = "link" THEN bad
            ELSE IF f[target].kind = "file"
            THEN [ok |-> TRUE, fs |-> Put(f, target, FileNode(e.data))]
            ELSE IF f[target].kind = "link" /\ ~IsDirNode(f, target)
                    /\ IsDirNode(f, Parent(f[target].data))
            THEN [ok |-> TRUE, fs |-> Put(f, f[target].data, FileNode(e.data))]
            ELSE bad
    IN  At(Walk(f, d, RStripSlash(e.name)))

\* The loop of load over the members from index i on, run with the working
\* directory at root (self.path).  ioerr: the index of the member the
\* archive reader fails on (0: none).  [result, k, fs, log]: k is the index
\* of the member the loop stopped at (0 when it ran to the end).
RECURSIVE LoadEntries(_, _, _, _, _, _)
LoadEntries(f, root, entries, i, ioerr, calls) ==
    LET Decide(filename, md, c1, ex, c2) ==
            IF ~PathAccepted(root, root, filename)
            THEN [result |-> "ValueError", k |-> i, fs |-> f, log |-> calls]
            ELSE IF ~md.ok
            THEN [result |-> "OSError", k |-> i, fs |-> md.fs, log |-> c1]
            ELSE IF ~ex.ok
            THEN [result |-> "IOError", k |-> i, fs |-> ex.fs, log |-> c2]
            ELSE LoadEntries(ex.fs, root, entries, i + 1, ioerr, c2)
        Logged(e, base, md, c1, ex) ==
            Decide(e.name, md, c1, ex,
                   IF base # EMPTY THEN Append(c1, Call("extract", e.name, ex.ok)) ELSE c1)
        Extracted(e, dir_, base, need, md) ==
            Logged(e, base, md,
                   IF need THEN Append(calls, Call("makedirs", dir_, md.ok)) ELSE calls,
                   IF base # EMPTY THEN Extract(md.fs, root, e) ELSE [ok |-> TRUE, fs |-> md.fs])
        MadeDirs(e, dir_, base, need) ==
            Extracted(e, dir_, base, need,
                      IF need THEN OsMakedirs(f, root, dir_)
                      ELSE [ok |-> TRUE, eexist |-> FALSE, fs |-> f])
        Member(e, sp) ==
            MadeDirs(e, sp[1], sp[2], sp[1] # EMPTY /\ ~OsExists(f, root, sp[1]))
    IN  IF i > Len(entries) THEN [result |-> "ok", k |-> 0, fs |-> f, log |-> calls]
        ELSE IF ioerr = i THEN [result |-> "IOError", k |-> i, fs |-> f, log |-> calls]
        ELSE Member(entries[i], PathSplit(entries[i].name))

-----------------------------------------------------------------------------------------------------------------------------------------------------
(* TmpDir.dump *)

\* the values of dump's compression argument
ArchiveKinds == {"tar", "gz", "bz2", "zip"}

\* number of files and directories the caller puts into the sandbox
MaxNodes == 3

\* the names the caller gives them
NodeNames == {<<"a">>, <<"b">>}

\* os.listdir order: some order of the set, the same on every call
RECURSIVE SetToSeq(_)
SetToSeq(S) ==
    LET Pick(x) == <<x>> \o SetToSeq(S \ {x})
    IN  IF S = {} THEN <<>> ELSE Pick(CHOOSE x \in S : TRUE)

\* the basename alone
FlatName(root, q) == <<".", "/">> \o PathSplit(q)[2]

\* os.path.join(path, name) as os.walk(".") gives it for node q when the
\* working directory is root: "./a/b"
RelName(root, q) == DOT \o SubSeq(q, Len(root) + 1, Len(q))

\* What tarfile stores for path q (lstat: a link is stored as a link); a
\* directory's name is written with a trailing slash.
TarMember(f, root, q) ==
    IF f[q].kind = "dir" THEN Entry(RelName(root, q) \o SLASH, "dir", EMPTY)
    ELSE Entry(RelName(root, q), f[q].kind, f[q].data)

\* archive.add(name) for each path of qs in turn: the member, and for a
\* directory everything beneath it (recursive=True is tarfile's default)
RECURSIVE TarAddAll(_, _, _)
TarAddAll(f, root, qs) ==
    LET One(q, rest) ==
            <<TarMember(f, root, q)>>
            \o (IF f[q].kind = "dir" THEN TarAddAll(f, root, SetToSeq(Children(f, q)))
                ELSE <<>>)
            \o TarAddAll(f, root, rest)
    IN  IF qs = <<>> THEN <<>> ELSE One(Head(qs), Tail(qs))

\* an arcname that keeps the last component only
ZipArcnameBase(name) == PathSplit(name)[2]

\* the arcname ZipFile.write gives name: normalized, leading separators cut
ZipArcname(name) ==
    LET Cut(n) == IF IsAbs(n) THEN SubSeq(n, 2, Len(n)) ELSE n
    IN  Cut(NormPath(name))

\* archive.write(name) for each path of qs (the entries os.walk lists as
\* files): os.stat follows a link, so a link to a file is stored as a file
RECURSIVE ZipWriteAll(_, _, _)
ZipWriteAll(f, root, qs) ==
    LET One(q, rest) ==
            <<Entry(ZipArcname(RelName(root, q)), "file", f[DirOf(f, q)].data)>>
            \o ZipWriteAll(f, root, rest)
    IN  IF qs = <<>> THEN <<>> ELSE One(Head(qs), Tail(qs))

\* The loop of dump over os.walk("."), top-down, for the directories ds and
\* what lies beneath them: per directory its files are added, then (not for
\* zip) its directories; os.walk then descends into the real directories.
RECURSIVE DumpWalk(_, _, _, _)
DumpWalk(f, root, ds, zip) ==
    LET Yield(files, dirs) ==
            IF zip THEN ZipWriteAll(f, root, SetToSeq(files))
            ELSE TarAddAll(f, root, SetToSeq(files)) \o TarAddAll(f, root, SetToSeq(dirs))
        One(d, rest) ==
            Yield({q \in Children(f, d) : ~IsDirNode(f, q)},
                  {q \in Children(f, d) : IsDirNode(f, q)})
            \o DumpWalk(f, root, SetToSeq({q \in Children(f, d) : f[q].kind = "dir"}), zip)
            \o DumpWalk(f, root, rest, zip)
    IN  IF ds = <<>> THEN <<>> ELSE One(Head(ds), Tail(ds))

\* What a reader of the stream gets as members (file_info.name, or
\* file_info.filename for zip) when it opens it as `compression`: tarfile
\* strips the trailing slash of a directory; the wrong container or
\* compression cannot be read.  [ok, members]
ReadMembers(s, compression) ==
    LET Strip(m) == IF m.kind = "dir" THEN [m EXCEPT !.name = RStripSlash(@)] ELSE m
    IN  IF s = <<>> \/ s.kind # compression THEN [ok |-> FALSE, members |-> <<>>]
        ELSE [ok |-> TRUE, members |-> [i \in DOMAIN s.members |-> Strip(s.members[i])]]

\* the nodes beneath root, by their path relative to root
RelTree(f, root) ==
    {[rel |-> SubSeq(q, Len(root) + 2, Len(q)), kind |-> f[q].kind, data |-> f[q].data] :
        q \in Tree(f, root) \ {root}}

\* TmpDir.load(s, compression, deletion="not-secure") where the filesystem
\* is f0 and the working directory "/": how it ends and the tree the new
\* sandbox holds.  [result, tree]
LoadStream(f0, s, compression) ==
    LET Done(box, r) == [result |-> r.result, tree |-> RelTree(r.fs, box.path)]
        Run(box, rd) ==
            IF ~rd.ok THEN [result |-> "ReadError", tree |-> {}]
            ELSE Done(box, LoadEntries(box.fs, box.path, rd.members, 1, 0, <<>>))
    IN  Run(Construct(f0, SLASH, EMPTY, "not-secure", FALSE, <<"/", TmpLetters[1]>>, "none"),
            ReadMembers(s, compression))

-----------------------------------------------------------------------------
(* sniff_archive_type *)

\* A file object: hasname and name (f.name), the bytes behind it, the read
\* position, whether it has seek and tell, and whether "r" is in f.mode.
Stream(hasname, name, data, pos, seekable, readable) ==
    [hasname |-> hasname, name |-> name, data |-> data, pos |-> pos,
     seekable |-> seekable, readable |-> readable]

\* s.rfind(c) + 1: the position of the last c in s, 0 when there is none
RECURSIVE RFind1(_, _)
RFind1(s, c) ==
    IF s = <<>> THEN 0
    ELSE IF s[Len(s)] = c THEN Len(s)
    ELSE RFind1(SubSeq(s, 1, Len(s) - 1), c)

\* os.path.splitext(p)[1]: from the last dot of the last component on,
\* unless only dots come before it in that component
SplitExt(p) ==
    LET Ext(sep, dot) ==
            IF dot > sep /\ \E k \in (sep + 1)..(dot - 1) : p[k] # DOT[1]
            THEN SubSeq(p, dot, Len(p))
            ELSE EMPTY
    IN  Ext(RFind1(p, SLASH[1]), RFind1(p, DOT[1]))

\* types_by_extension
TypesByExtension ==
    (<<".", "b", "z", "2">> :> "bz2") @@ (<<".", "t", "b", "z">> :> "bz2")
    @@ (<<".", "t", "b", "2">> :> "bz2") @@ (<<".", "t", "b", "z", "2">> :> "bz2")
    @@ (<<".", "z", "i", "p">> :> "zip") @@ (<<".", "g", "z", "i", "p">> :> "gz")
    @@ (<<".", "g", "z">> :> "gz") @@ (<<".", "t", "g", "z">> :> "gz")
    @@ (<<".", "t", "a", "r">> :> "tar")

\* offset of the tar magic and its bytes
UstarOffset == 257
Ustar == <<"u", "s", "t", "a", "r">>

\* f.read(n) at position pos: the bytes returned
ReadBytes(data, pos, n) == SubSeq(data, pos + 1, Min(pos + n, Len(data)))

\* the position after f.read(n)
ReadPos(data, pos, n) == IF pos >= Len(data) THEN pos ELSE Min(pos + n, Len(data))

\* a detection that does not know the gzip magic
MagicKindNoGz(two) ==
    IF two = <<"B", "Z">> THEN "bz2"
    ELSE IF two = <<"P", "K">> THEN "zip"
    ELSE "none"

\* the kind the two leading bytes stand for, "none" when they are no magic
MagicKind(two) ==
    IF two = <<"1F", "8B">> THEN "gz"
    ELSE IF two = <<"B", "Z">> THEN "bz2"
    ELSE IF two = <<"P", "K">> THEN "zip"
    ELSE "none"

\* f.seek(target): the new position
SeekSet(pos, target) == target

\* f.seek(offset, os.SEEK_CUR): the new position
SeekCur(pos, offset) == pos + offset

\* a detection that looks at the leading bytes before the name
SniffMagicFirst(st, default) ==
    LET Magic(start) ==
            IF MagicKind(ReadBytes(st.data, start, 2)) # "none"
            THEN MagicKind(ReadBytes(st.data, start, 2))
            ELSE IF ReadBytes(st.data, start + UstarOffset, 5) = Ustar THEN "tar"
            ELSE "none"
        Named(m, ext) ==
            IF m # "none" THEN m
            ELSE IF st.hasname /\ ext \in DOMAIN TypesByExtension THEN TypesByExtension[ext]
            ELSE default
    IN  [kind |-> Named(IF st.seekable /\ st.readable THEN Magic(st.pos) ELSE "none",
                        IF st.hasname THEN SplitExt(st.name) ELSE EMPTY),
         pos |-> st.pos]

\* sniff_archive_type(f, default): the kind returned and the position the
\* stream is left at.  [kind, pos]
SniffArchiveType(st, default) ==
    LET Probe257(start, p3) ==
            \* at p3 after f.seek(257, os.SEEK_CUR): ustar = f.read(5); f.seek(start)
            [kind |-> IF ReadBytes(st.data, p3, 5) = Ustar THEN "tar" ELSE default,
             pos |-> SeekSet(ReadPos(st.data, p3, 5), start)]
        Magic(start, two, p2) ==
            \* start = f.tell(); leading_two = f.read(2); at p2 after f.seek(start)
            IF MagicKind(two) # "none" THEN [kind |-> MagicKind(two), pos |-> p2]
            ELSE Probe257(start, SeekCur(p2, UstarOffset))
        Unnamed(start) ==
            IF st.seekable /\ st.readable
            THEN Magic(start, ReadBytes(st.data, start, 2),
                       SeekSet(ReadPos(st.data, start, 2), start))
            ELSE [kind |-> default, pos |-> start]
        Named(ext) ==
            IF ext \in DOMAIN TypesByExtension
            THEN [kind |-> TypesByExtension[ext], pos |-> st.pos]
            ELSE Unnamed(st.pos)
    IN  IF st.hasname THEN Named(SplitExt(st.name)) ELSE Unnamed(st.pos)

\* The detection inside TempDir.load (tempdir.py) when compression is None:
\* magic_number = f.read(2); f.seek(-2, os.SEEK_CUR).  A seek to before the
\* start of the stream raises IOError on a file and goes to 0 on a StringIO
\* (clamp).  [ok, kind, pos]
TempDirSniff(st, clamp) ==
    LET Kind(two) == IF two = <<"1F", "8B">> THEN "gz"
                     ELSE IF two = <<"B", "Z">> THEN "bz2"
                     ELSE "tar"
        Back(two, p1, target) ==
            IF target >= 0 THEN [ok |-> TRUE, kind |-> Kind(two), pos |-> target]
            ELSE IF clamp THEN [ok |-> TRUE, kind |-> Kind(two), pos |-> 0]
            ELSE [ok |-> FALSE, kind |-> "IOError", pos |-> p1]
        After(two, p1) == Back(two, p1, SeekCur(p1, 0 - 2))
    IN  After(ReadBytes(st.data, st.pos, 2), ReadPos(st.data, st.pos, 2))

\* the file names, the contents and the start positions of the streams
StreamNames ==
    {<<"x">>, <<"x", ".", "t", "a", "r">>, <<"x", ".", "t", "g", "z">>,
     <<"x", ".", "g", "z">>, <<"x", ".", "g", "z", "i", "p">>,
     <<"x", ".", "t", "b", "z">>, <<"x", ".", "t", "b", "z", "2">>,
     <<"x", ".", "t", "b", "2">>, <<"x", ".", "b", "z", "2">>,
     <<"x", ".", "z", "i", "p">>, <<"x", ".", "Z", "I", "P">>,
     <<".", "z", "i", "p">>, <<"a", ".", "z", "i", "p", "/", "x">>,
     <<"x", ".", "t", "a", "r", ".", "g", "z">>}

Filler(n) == [i \in 1..n |-> "x"]

StreamDatas ==
    {<<>>, <<"1F">>, <<"1F", "8B">>, <<"1F", "8B", "x">>, <<"B", "Z", "x">>,
     <<"P", "K", "x">>, <<"x", "1F", "8B">>, Filler(3),
     Filler(UstarOffset) \o Ustar \o Filler(2),
     Filler(UstarOffset + 1) \o Ustar \o Filler(2)}

\* highest position a stream is at when it is handed over
MaxStart == 2

Streams ==
    {Stream(hasname, IF hasname THEN name ELSE EMPTY, data, pos, seekable, readable) :
        hasname \in BOOLEAN, name \in StreamNames, data \in StreamDatas,
        pos \in 0..MaxStart, seekable \in BOOLEAN, readable \in BOOLEAN}

-----------------------------------------------------------------------------
(* pseudosecure_delete_directory, call by call *)

\* os.rename(src, dst) as rename(2) decides it: a missing source fails, a
\* directory replaces only an empty directory, anything else replaces only
\* what is not a directory, and an existing target is replaced without notice
PosixRename(f, src, dst) ==
    IF src \notin DOMAIN f \/ ~IsDirNode(f, Parent(dst)) THEN [ok |-> FALSE, fs |-> f]
    ELSE IF src = dst THEN [ok |-> TRUE, fs |-> f]
    ELSE IF dst \notin DOMAIN f THEN [ok |-> TRUE, fs |-> OsRename(f, src, dst)]
    ELSE IF f[src].kind = "dir"
    THEN IF f[dst].kind = "dir" /\ Children(f, dst) = {}
         THEN [ok |-> TRUE, fs |-> OsRename(f, src, dst)]
         ELSE [ok |-> FALSE, fs |-> f]
    ELSE IF f[dst].kind = "dir" THEN [ok |-> FALSE, fs |-> f]
    ELSE [ok |-> TRUE, fs |-> OsRename(f, src, dst)]

\* os.remove(q)
OsRemove(f, q) ==
    IF q \in DOMAIN f /\ f[q].kind # "dir"
    THEN [ok |-> TRUE, fs |-> [x \in DOMAIN f \ {q} |-> f[x]]]
    ELSE [ok |-> FALSE, fs |-> f]

\* os.rmdir(q): q must be a directory itself, and empty
OsRmdir(f, q) ==
    IF q \in DOMAIN f /\ f[q].kind = "dir" /\ Children(f, q) = {}
    THEN [ok |-> TRUE, fs |-> [x \in DOMAIN f \ {q} |-> f[x]]]
    ELSE [ok |-> FALSE, fs |-> f]

\* an overwrite that writes nothing
ZeroSkips(f, q) == [ok |-> TRUE, fs |-> f]

\* the body of the first loop for one listed file: getsize and open follow a
\* symbolic link, and the whole length is overwritten
ZeroOne(f, q) ==
    LET At(target) ==
            IF target \in DOMAIN f /\ f[target].kind = "file"
            THEN [ok |-> TRUE, fs |-> Put(f, target, FileNode(Zeros(Len(f[target].data))))]
            ELSE [ok |-> FALSE, fs |-> f]
    IN  At(DirOf(f, q))

\* what os.walk lists in directory d: dirs (a link to a directory is among
\* them) and files
ListDirs(f, d) == {q \in Children(f, d) : IsDirNode(f, q)}
ListFiles(f, d) == {q \in Children(f, d) : ~IsDirNode(f, q)}

\* the directories os.walk yields from the directories ds on, in its order:
\* a directory before (topdown) or after what lies below it; a link is not
\* descended into
RECURSIVE WalkAll(_, _, _)
WalkAll(f, ds, topdown) ==
    LET One(d, below) == IF topdown THEN <<d>> \o below ELSE below \o <<d>>
        First(d) == One(d, WalkAll(f, SetToSeq({q \in ListDirs(f, d) : f[q].kind = "dir"}),
                                   topdown))
    IN  IF ds = <<>> THEN <<>> ELSE First(Head(ds)) \o WalkAll(f, Tail(ds), topdown)

\* the position of a loop over os.walk: the directories still to be
\* yielded, and the files and dirs of the yielded one still to be handled
Walker(todo, files, subs) == [todo |-> todo, files |-> files, subs |-> subs]
StartWalk(f, top, topdown) == Walker(WalkAll(f, <<top>>, topdown), {}, {})

\* one call of the erasure, as events records it
Event(op, p, to, replaced) == [op |-> op, path |-> p, to |-> to, replaced |-> replaced]

-----------------------------------------------------------------------------
(* The overwrite loop of pseudosecure_delete_directory for one file *)

\* the most bytes one f.write of the loop gets
Chunk == 1024

\* a loop that writes the whole file at once
ChunkAll(left) == left

\* n = min(bytes_to_overwrite, 1024)
ChunkLen(left) == Min(left, Chunk)

\* f.write(b"\x00" * n) at position pos of a file opened "r+": the bytes
\* from pos on are replaced, and the file grows only past its end
WriteZeros(data, pos, n) ==
    [i \in 1..(IF pos + n > Len(data) THEN pos + n ELSE Len(data)) |->
        IF i > pos /\ i <= pos + n THEN "0" ELSE data[i]]

\* The file and the loop: the bytes of the file when it was opened (data0)
\* and now, the position of f, bytes_to_overwrite (left), n, the bytes
\* written and not flushed, the bytes flushed and not synced, the number of
\* finished iterations, the statement the loop stands at, and the calls made.
ZeroState(data0, data, pos, left, n, unflushed, unsynced, iters, at, calls) ==
    [data0 |-> data0, data |-> data, pos |-> pos, left |-> left, n |-> n,
     unflushed |-> unflushed, unsynced |-> unsynced, iters |-> iters, pc |-> at,
     calls |-> calls]

\* one call on f: its name, the position of f before it, and its length
FileCall(op, at, n) == [op |-> op, at |-> at, n |-> n]



-----
(* The state machine *)

InitFs ==
    [q \in {SLASH, S_etc, S_passwd} |->
        IF q = S_passwd THEN FileNode(<<"s", "y">>) ELSE DirNode]

\* no manager, no stream, no erasure and no overwrite loop in progress
ScopeRest == mgrs = <<>> /\ scopes = <<>>
SniffRest == stream = <<>> /\ sniffed = <<>>
EraseRest == tree = InitFs /\ tree0 = InitFs /\ phase = "off" /\ walker = <<>> /\ events = <<>>
ZeroRest == zero = <<>>

Init ==
    /\ fs = InitFs
    /\ cwd = SLASH
    /\ srm \in BOOLEAN
    /\ obj = "none"
    /\ closed = TRUE
    /\ deletion = "unset"
    /\ path = EMPTY
    /\ outer_path = EMPTY
    /\ pc = "idle"
    /\ tmp_path = EMPTY
    /\ old_path = EMPTY
    /\ nerase = 0
    /\ log = <<>>
    /\ last = Outcome("none", "ok", "unset", <<>>, 0)
    /\ inwith = FALSE
    /\ dumped = <<>>
    /\ ScopeRest /\ SniffRest /\ EraseRest /\ ZeroRest

\* d = TmpDir(inner_name, deletion)
Create(inner, del) ==
    /\ pc = "idle"
    /\ obj = "none"
    /\ \E dir \in FreshTmp(fs), failstep \in FailSteps :
        \E c \in {Construct(fs, cwd, inner, del, srm, dir, failstep)} :
            /\ fs' = c.fs
            /\ obj' = IF c.result = "ok" THEN "ready" ELSE "partial"
            /\ closed' = c.closed
            /\ deletion' = c.deletion
            /\ path' = c.path
            /\ outer_path' = c.outer
            /\ log' = c.log
            /\ last' = Outcome("create", c.result, del, <<>>, 0)
    /\ UNCHANGED <<cwd, srm, pc, tmp_path, old_path, nerase, inwith, dumped, otherVars>>

\* d = TmpDir.load(f, compression, inner_name, deletion) on an archive that
\* holds the members `archive`: the constructor, then the loop inside
\* "with self.as_cwd()", which restores the working directory on every exit.
\* When the loop raises, the new instance is left to its finalizer.
Load(archive, inner, del) ==
    /\ pc = "idle"
    /\ obj = "none"
    /\ \E dir \in FreshTmp(fs), failstep \in FailSteps :
        \E c \in {Construct(fs, cwd, inner, del, srm, dir, failstep)} :
        \E ioerr \in IF c.result = "ok" THEN 0..Len(archive) ELSE {0} :
        \E en \in {IF c.result = "ok" THEN MgrEnter(c.fs, Manager(c.path), cwd)
                   ELSE [ok |-> FALSE, mgr |-> Manager(c.path), cwd |-> cwd]} :
        \E r \in {IF c.result = "ok"
                  THEN LoadEntries(c.fs, c.path, archive, 1, ioerr,
                                   Append(c.log, Call("chdir", c.path, en.ok)))
                  ELSE [result |-> c.result, k |-> 0, fs |-> c.fs, log |-> c.log]} :
        \E ex \in {IF c.result = "ok" THEN MgrExit(r.fs, en.mgr, en.cwd) ELSE en} :
            /\ fs' = r.fs
            /\ cwd' = ex.cwd
            /\ obj' = IF c.result # "ok" THEN "partial"
                      ELSE IF r.result = "ok" THEN "ready"
                      ELSE "orphan"
            /\ closed' = c.closed
            /\ deletion' = c.deletion
            /\ path' = c.path
            /\ outer_path' = c.outer
            /\ log' = IF c.result = "ok"
                      THEN Append(r.log, Call("chdir", PopCwd(en.mgr.previous_paths), ex.ok))
                      ELSE r.log
            /\ last' = Outcome("load", r.result, del, archive, r.k)
    /\ UNCHANGED <<srm, pc, tmp_path, old_path, nerase, inwith, dumped, otherVars>>

\* The erasure close() applies to target under self.deletion = d: [ok, fs, call].
\* exit0: whether srm, when installed, exits with status 0.
Erase(f, d, target, tool, exit0, linkFirst) ==
    LET Pseudo(r) == [ok |-> r.ok, fs |-> r.fs, call |-> "pseudo"]
    IN  IF Falsy(d)
        THEN [ok |-> TRUE, fs |-> RemoveTree(f, target), call |-> "rmtree"]
        ELSE IF d = "pseudo-secure"
        THEN Pseudo(PseudoSecureDelete(f, target, linkFirst))
        ELSE [ok |-> tool /\ exit0,
              fs |-> IF tool /\ exit0 THEN SrmDelete(f, target) ELSE f,
              call |-> "srm"]

\* The exception a failed erasure raises
EraseError(call, tool) ==
    IF call = "srm" /\ tool THEN "CalledProcessError" ELSE "OSError"

\* "with d:" is entered: __enter__ returns self
WithEnter ==
    /\ pc = "idle"
    /\ obj = "ready"
    /\ ~inwith
    /\ inwith' = TRUE
    /\ log' = <<>>
    /\ last' = Outcome("__enter__", "ok", deletion, <<>>, 0)
    /\ UNCHANGED <<fs, cwd, srm, obj, closed, deletion, path, outer_path, pc, tmp_path,
                   old_path, nerase, dumped, otherVars>>

CloseCallers == {"close", "__exit__", "__del__"}

\* a close() that does not look at self.closed
CloseGuardAlways(c) == TRUE

\* "if not self.closed": whether close() has anything to do
CloseGuard(c) == ~c

\* close() is entered (directly, from __exit__ or from __del__): the closed
\* test and, on an open instance, tmp_path = tempfile.mkdtemp()
CloseCall(how) ==
    /\ pc = "idle"
    /\ obj # "none"
    /\ obj \in {"partial", "orphan"} => how = "__del__"
    /\ how = "__exit__" => inwith
    /\ IF ~CloseGuard(closed)
       THEN /\ log' = <<>>
            /\ last' = Outcome(how, "ok", deletion, <<>>, 0)
            /\ UNCHANGED <<fs, pc, tmp_path, old_path>>
       ELSE \E dir \in FreshTmp(fs), fail \in BOOLEAN :
              IF fail
              THEN /\ log' = <<Call("mkdtemp", EMPTY, FALSE)>>
                   /\ last' = Outcome(how, "OSError", deletion, <<>>, 0)
                   /\ UNCHANGED <<fs, pc, tmp_path, old_path>>
              ELSE /\ fs' = Mkdtemp(fs, dir)
                   /\ tmp_path' = dir
                   /\ old_path' = path
                   /\ pc' = "rename"
                   /\ log' = <<Call("mkdtemp", dir, TRUE)>>
                   /\ last' = Outcome(how, "running", deletion, <<>>, 0)
    /\ inwith' = (inwith /\ how # "__exit__")
    /\ UNCHANGED <<cwd, srm, obj, closed, deletion, path, outer_path, nerase, dumped, otherVars>>

\* os.rename(self.path, new_path); self.closed = True; self.path = new_path.
\* The rename raises when the system refuses it or the source is missing.
CloseRename ==
    /\ pc = "rename"
    /\ \E r \in RandNames, fail \in BOOLEAN :
        \E new_path \in {AbsPath(cwd, PathJoin(tmp_path, r))} :
            IF fail \/ path \notin DOMAIN fs
            THEN /\ log' = Append(log, Call("rename", path, FALSE))
                 /\ last' = [last EXCEPT !.result = "OSError"]
                 /\ pc' = "idle"
                 /\ UNCHANGED <<fs, closed, path>>
            ELSE /\ fs' = OsRename(fs, path, new_path)
                 /\ closed' = TRUE
                 /\ path' = new_path
                 /\ pc' = "erase_tmp"
                 /\ log' = Append(log, Call("rename", path, TRUE))
                 /\ UNCHANGED last
    /\ UNCHANGED <<cwd, srm, obj, deletion, outer_path, tmp_path, old_path, nerase,
                   inwith, dumped, otherVars>>

\* the first erasure call of close(), on tmp_path
CloseEraseTmp ==
    /\ pc = "erase_tmp"
    /\ \E exit0 \in BOOLEAN, linkFirst \in BOOLEAN :
        \E e \in {Erase(fs, deletion, tmp_path, srm, exit0, linkFirst)} :
            /\ fs' = e.fs
            /\ log' = Append(log, Call(e.call, tmp_path, e.ok))
            /\ pc' = IF e.ok THEN "erase_outer" ELSE "idle"
            /\ last' = IF e.ok THEN last
                       ELSE [last EXCEPT !.result = EraseError(e.call, srm)]
    /\ nerase' = nerase + 1
    /\ UNCHANGED <<cwd, srm, obj, closed, deletion, path, outer_path, tmp_path, old_path,
                   inwith, dumped, otherVars>>

\* the second erasure call of close(), on self.__outer_path; close() returns
CloseEraseOuter ==
    /\ pc = "erase_outer"
    /\ \E exit0 \in BOOLEAN, linkFirst \in BOOLEAN :
        \E e \in {Erase(fs, deletion, outer_path, srm, exit0, linkFirst)} :
            /\ fs' = e.fs
            /\ log' = Append(log, Call(e.call, outer_path, e.ok))
            /\ last' = [last EXCEPT !.result = IF e.ok THEN "ok" ELSE EraseError(e.call, srm)]
    /\ pc' = "idle"
    /\ UNCHANGED <<cwd, srm, obj, closed, deletion, path, outer_path, tmp_path, old_path,
                   nerase, inwith, dumped, otherVars>>

\* The caller puts a file or a directory into the sandbox (through d.path,
\* or from the command main() runs inside it).
Populate(name, node) ==
    /\ pc = "idle"
    /\ obj = "ready"
    /\ ~closed
    /\ Cardinality(Tree(fs, path)) <= MaxNodes
    /\ \E parent \in {q \in Tree(fs, path) : fs[q].kind = "dir"} :
        \E target \in {PathJoin(parent, name)} :
            /\ target \notin DOMAIN fs
            /\ fs' = Put(fs, target, node)
    /\ log' = <<>>
    /\ last' = Outcome("populate", "ok", deletion, <<>>, 0)
    /\ UNCHANGED <<cwd, srm, obj, closed, deletion, path, outer_path, pc, tmp_path,
                   old_path, nerase, inwith, dumped, otherVars>>

\* d.dump(f, compression) on a writable stream f: the archive is written
\* inside "with self.as_cwd()" and closed on the way out.
Dump(compression) ==
    /\ pc = "idle"
    /\ obj = "ready"
    /\ \E en \in {MgrEnter(fs, Manager(path), cwd)} :
       \E ex \in {IF en.ok THEN MgrExit(fs, en.mgr, en.cwd) ELSE en} :
            /\ dumped' = [kind |-> compression,
                          members |-> IF en.ok
                                      THEN DumpWalk(fs, en.cwd, <<en.cwd>>, compression = "zip")
                                      ELSE <<>>]
            /\ cwd' = ex.cwd
            /\ log' = <<Call("chdir", path, en.ok)>>
                      \o (IF en.ok THEN <<Call("chdir", PopCwd(en.mgr.previous_paths), ex.ok)>>
                          ELSE <<>>)
            /\ last' = Outcome("dump", IF en.ok /\ ex.ok THEN "ok" ELSE "OSError",
                               deletion, <<>>, 0)
    /\ UNCHANGED <<fs, srm, obj, closed, deletion, path, outer_path, pc, tmp_path,
                   old_path, nerase, inwith, otherVars>>

\* no TmpDir exists and none is made
ObjRest ==
    /\ srm = FALSE
    /\ obj = "none"
    /\ closed = TRUE
    /\ deletion = "unset"
    /\ path = EMPTY
    /\ outer_path = EMPTY
    /\ pc = "idle"
    /\ tmp_path = EMPTY
    /\ old_path = EMPTY
    /\ nerase = 0
    /\ log = <<>>
    /\ last = Outcome("none", "ok", "unset", <<>>, 0)
    /\ inwith = FALSE
    /\ dumped = <<>>

\* nor is the filesystem or the working directory touched
LifeRest == fs = InitFs /\ cwd = SLASH /\ ObjRest

\* what `sniffed` records: who looked at the stream, with which default,
\* where the stream stood, and the result
Sniffed(by, default, start, ok, kind) ==
    [by |-> by, default |-> default, start |-> start, ok |-> ok, kind |-> kind]

SniffInit ==
    /\ LifeRest /\ ScopeRest /\ EraseRest /\ ZeroRest
    /\ stream \in Streams
    /\ sniffed = Sniffed("none", "", 0, TRUE, "")

\* sniff_archive_type(f, default), as load (default "tar") and dump
\* (default "gz") call it
Sniff(default) ==
    /\ sniffed.by = "none"
    /\ \E r \in {SniffArchiveType(stream, default)} :
          /\ stream' = [stream EXCEPT !.pos = r.pos]
          /\ sniffed' = Sniffed("sniff_archive_type", default, stream.pos, TRUE, r.kind)
    /\ UNCHANGED <<lifeVars, scopeVars, eraseVars, zero>>

\* the detection at the start of TempDir.load(f) in tempdir.py
TempDirLoadSniff ==
    /\ sniffed.by = "none"
    /\ stream.seekable /\ stream.readable
    /\ \E clamp \in BOOLEAN :
       \E r \in {TempDirSniff(stream, clamp)} :
          /\ stream' = [stream EXCEPT !.pos = r.pos]
          /\ sniffed' = Sniffed("TempDir.load", "tar", stream.pos, r.ok, r.kind)
    /\ UNCHANGED <<lifeVars, scopeVars, eraseVars, zero>>

SniffNext ==
    \/ \E default \in {"tar", "gz"} : Sniff(default)
    \/ TempDirLoadSniff

SniffSpec == SniffInit /\ [][SniffNext]_vars

\* the directory that is erased
EraseTop == <<"/", "t">>

S_dottmp == <<".", "t", "m", "p">>

\* most entries the erased directory holds
MaxTree == 3

\* The trees that are erased: under the top an entry a (a directory or a
\* file), an entry whose name is one rand_name() can return (an empty
\* directory or a link to a directory elsewhere), and inside a an entry c
\* and a file whose name is one a renamed file can get.
EraseTrees ==
    LET A == EraseTop \o <<"/", "a">>
        R == EraseTop \o SLASH \o <<"R", "1">>
        C == A \o <<"/", "c">>
        D == A \o SLASH \o <<"R", "1">> \o S_dottmp
        Node(k) == IF k = "dir" THEN DirNode
                   ELSE IF k = "link" THEN LinkNode(S_etc)
                   ELSE IF k = "empty" THEN FileNode(EMPTY)
                   ELSE FileNode(S_hi)
        Build(ka, kr, kc, kd) ==
            [q \in DOMAIN InitFs \cup {EraseTop}
                   \cup (IF ka = "no" THEN {} ELSE {A}) \cup (IF kr = "no" THEN {} ELSE {R})
                   \cup (IF kc = "no" THEN {} ELSE {C}) \cup (IF kd = "no" THEN {} ELSE {D}) |->
                IF q \in DOMAIN InitFs THEN InitFs[q]
                ELSE IF q = EraseTop THEN DirNode
                ELSE IF q = A THEN Node(ka)
                ELSE IF q = R THEN Node(kr)
                ELSE IF q = C THEN Node(kc)
                ELSE Node(kd)]
        Count(ks) == Cardinality({i \in 1..4 : ks[i] # "no"})
    IN  {Build(ks[1], ks[2], ks[3], ks[4]) :
            ks \in {k \in {"no", "dir", "file"} \X {"no", "dir", "link"}
                          \X {"no", "file", "empty", "dir"} \X {"no", "file"} :
                       /\ (k[3] # "no" \/ k[4] # "no") => k[1] = "dir"
                       /\ Count(k) <= MaxTree}}

\* pseudosecure_delete_directory(EraseTop) has been called on a tree and
\* stands before its first loop
EraseInit ==
    /\ LifeRest /\ ScopeRest /\ SniffRest /\ ZeroRest
    /\ tree \in EraseTrees
    /\ tree0 = tree
    /\ phase = "zero"
    /\ walker = StartWalk(tree, EraseTop, TRUE)
    /\ events = <<>>

EraseLoops == {"zero", "rename", "delete"}

\* os.walk yields its next directory
NextDir ==
    /\ phase \in EraseLoops
    /\ walker.files = {} /\ walker.subs = {} /\ walker.todo # <<>>
    /\ walker' = Walker(Tail(walker.todo), ListFiles(tree, Head(walker.todo)),
                        IF phase = "zero" THEN {} ELSE ListDirs(tree, Head(walker.todo)))
    /\ UNCHANGED <<tree, tree0, phase, events>>
    /\ UNCHANGED <<lifeVars, scopeVars, sniffVars, zero>>

\* a walk is over: the next loop starts its own walk, and after the last
\* loop comes shutil.rmtree
NextLoop ==
    /\ phase \in EraseLoops
    /\ walker.files = {} /\ walker.subs = {} /\ walker.todo = <<>>
    /\ phase' = IF phase = "zero" THEN "rename"
                ELSE IF phase = "rename" THEN "delete" ELSE "rmtree"
    /\ walker' = IF phase = "delete" THEN Walker(<<>>, {}, {})
                 ELSE StartWalk(tree, EraseTop, FALSE)
    /\ UNCHANGED <<tree, tree0, events>>
    /\ UNCHANGED <<lifeVars, scopeVars, sniffVars, zero>>

\* first loop: one listed file is overwritten with zeros
ZeroFile ==
    /\ phase = "zero"
    /\ \E q \in walker.files :
       \E r \in {ZeroOne(tree, q)} :
          /\ tree' = r.fs
          /\ phase' = IF r.ok THEN phase ELSE "error"
          /\ events' = Append(events, Event("zero", q, q, FALSE))
          /\ walker' = [walker EXCEPT !.files = @ \ {q}]
    /\ UNCHANGED tree0
    /\ UNCHANGED <<lifeVars, scopeVars, sniffVars, zero>>

\* second loop: one listed entry, the files of a directory before its
\* dirs, is renamed to rand_name(8) + ".tmp" (a file) or rand_name(8) (a dir)
RenameEntry ==
    /\ phase = "rename"
    /\ \E q \in (IF walker.files # {} THEN walker.files ELSE walker.subs), name \in RandNames :
       \E dst \in {PathJoin(Parent(q), IF q \in walker.files THEN name \o S_dottmp ELSE name)} :
       \E r \in {PosixRename(tree, q, dst)} :
          /\ tree' = r.fs
          /\ phase' = IF r.ok THEN phase ELSE "error"
          /\ events' = Append(events, Event("rename", q, dst,
                                            r.ok /\ dst \in DOMAIN tree /\ dst # q))
          /\ walker' = [walker EXCEPT !.files = @ \ {q}, !.subs = @ \ {q}]
    /\ UNCHANGED tree0
    /\ UNCHANGED <<lifeVars, scopeVars, sniffVars, zero>>

\* third loop: one listed entry, the files of a directory before its dirs,
\* is removed with os.remove (a file) or os.rmdir (a dir)
DeleteEntry ==
    /\ phase = "delete"
    /\ \E q \in (IF walker.files # {} THEN walker.files ELSE walker.subs) :
       \E r \in {IF q \in walker.files THEN OsRemove(tree, q) ELSE OsRmdir(tree, q)} :
          /\ tree' = r.fs
          /\ phase' = IF r.ok THEN phase ELSE "error"
          /\ events' = Append(events, Event(IF q \in walker.files THEN "remove" ELSE "rmdir",
                                            q, q, FALSE))
          /\ walker' = [walker EXCEPT !.files = @ \ {q}, !.subs = @ \ {q}]
    /\ UNCHANGED tree0
    /\ UNCHANGED <<lifeVars, scopeVars, sniffVars, zero>>

\* shutil.rmtree(path), and the function returns
Rmtree ==
    /\ phase = "rmtree"
    /\ tree' = RemoveTree(tree, EraseTop)
    /\ phase' = "done"
    /\ events' = Append(events, Event("rmtree", EraseTop, EraseTop, FALSE))
    /\ UNCHANGED <<tree0, walker>>
    /\ UNCHANGED <<lifeVars, scopeVars, sniffVars, zero>>

EraseNext ==
    \/ NextDir
    \/ NextLoop
    \/ ZeroFile
    \/ RenameEntry
    \/ DeleteEntry
    \/ Rmtree

EraseSpec == EraseInit /\ [][EraseNext]_vars

\* most whole chunks a file holds
MaxChunks == 2

\* the sizes of the files: around the multiples of the chunk length
ZeroSizes == {k * Chunk + d : k \in 0..MaxChunks, d \in {0, 1, Chunk - 1}}

\* the files: of bytes x, of zeros already, and of bytes x with a last y
ZeroDatas ==
    {[i \in 1..s |-> b] : s \in ZeroSizes, b \in {"x", "0"}}
    \cup {[i \in 1..s |-> IF i = s THEN "y" ELSE "x"] : s \in ZeroSizes}

\* bytes_to_overwrite = os.path.getsize(filepath); open(filepath, "r+");
\* f.seek(0): the loop stands before its first test
ZeroInit ==
    /\ LifeRest /\ ScopeRest /\ SniffRest /\ EraseRest
    /\ \E d \in ZeroDatas :
          zero = ZeroState(d, d, 0, Len(d), 0, 0, 0, 0, "while", <<>>)

ZeroFrame == UNCHANGED <<lifeVars, scopeVars, sniffVars, eraseVars>>

\* while bytes_to_overwrite > 0: n = min(...); f.write(b"\x00" * n)
ZeroWrite ==
    /\ zero.pc = "while" /\ zero.left > 0
    /\ \E n \in {ChunkLen(zero.left)} :
          zero' = [zero EXCEPT !.n = n,
                               !.data = WriteZeros(zero.data, zero.pos, n),
                               !.pos = zero.pos + n,
                               !.unflushed = zero.unflushed + n,
                               !.pc = "flush",
                               !.calls = Append(@, FileCall("write", zero.pos, n))]
    /\ ZeroFrame

\* f.flush()
ZeroFlush ==
    /\ zero.pc = "flush"
    /\ zero' = [zero EXCEPT !.unflushed = 0,
                            !.unsynced = zero.unsynced + zero.unflushed,
                            !.pc = "fsync",
                            !.calls = Append(@, FileCall("flush", zero.pos, 0))]
    /\ ZeroFrame

\* os.fsync(f.fileno()); bytes_to_overwrite -= n
ZeroFsync ==
    /\ zero.pc = "fsync"
    /\ zero' = [zero EXCEPT !.unsynced = 0,
                            !.left = zero.left - zero.n,
                            !.iters = zero.iters + 1,
                            !.pc = "while",
                            !.calls = Append(@, FileCall("fsync", zero.pos, 0))]
    /\ ZeroFrame

\* the loop test fails and the with block closes f
ZeroClose ==
    /\ zero.pc = "while" /\ zero.left <= 0
    /\ zero' = [zero EXCEPT !.pc = "closed"]
    /\ ZeroFrame

ZeroNext ==
    \/ ZeroWrite
    \/ ZeroFlush
    \/ ZeroFsync
    \/ ZeroClose

\* the loop is sequential code: it takes its next step as long as it has one
ZeroSpec == ZeroInit /\ [][ZeroNext]_vars /\ WF_vars(ZeroNext)

\* most scopes that are entered
MaxEnters == 3

\* the roots of two open sandboxes and of one that has been closed
S_o_tmp == <<"/", "o", "/", "t", "m", "p">>
S_p_tmp == <<"/", "p", "/", "t", "m", "p">>
S_q_tmp == <<"/", "q", "/", "t", "m", "p">>

CwdFs ==
    [q \in DOMAIN InitFs \cup {<<"/", "o">>, S_o_tmp, <<"/", "p">>, S_p_tmp} |->
        IF q \in DOMAIN InitFs THEN InitFs[q] ELSE DirNode]

\* scopes: the as_cwd scopes that are open, innermost last, each with its
\* manager and the working directory before its enter; and the scopes that
\* were left, each with the working directory after its exit as well
Scope(m, saved) == [m |-> m, saved |-> saved]
Left(sc, restored) == [m |-> sc.m, saved |-> sc.saved, restored |-> restored]

\* One manager per sandbox (d.as_cwd() kept in a variable), none entered
CwdInit ==
    /\ ObjRest /\ SniffRest /\ EraseRest /\ ZeroRest
    /\ fs = CwdFs
    /\ cwd \in {SLASH, S_etc, S_o_tmp}
    /\ mgrs = <<Manager(S_o_tmp), Manager(S_p_tmp), Manager(S_q_tmp)>>
    /\ scopes = [open |-> <<>>, left |-> <<>>, failed |-> 0]

CwdFrame ==
    UNCHANGED <<fs, srm, obj, closed, deletion, path, outer_path, pc, tmp_path, old_path,
                nerase, log, inwith, dumped, sniffVars, eraseVars, zero>>

\* `with m:` reaches __enter__ of manager i.  When os.chdir raises, the with
\* statement is left at once: no scope is open and __exit__ is not called.
ScopeEnter(i) ==
    /\ Len(scopes.open) + Len(scopes.left) + scopes.failed < MaxEnters
    /\ \E r \in {MgrEnter(fs, mgrs[i], cwd)} :
          /\ mgrs' = [mgrs EXCEPT ![i] = r.mgr]
          /\ cwd' = r.cwd
          /\ scopes' = IF r.ok THEN [scopes EXCEPT !.open = Append(@, Scope(i, cwd))]
                       ELSE [scopes EXCEPT !.failed = @ + 1]
    /\ UNCHANGED last
    /\ CwdFrame

\* the innermost with block is left, by its end or by an exception of its
\* body: __exit__ of its manager
ScopeExit ==
    /\ scopes.open # <<>>
    /\ \E sc \in {scopes.open[Len(scopes.open)]} :
       \E r \in {MgrExit(fs, mgrs[sc.m], cwd)} :
          /\ mgrs' = [mgrs EXCEPT ![sc.m] = r.mgr]
          /\ cwd' = r.cwd
          /\ scopes' = [scopes EXCEPT !.open = SubSeq(@, 1, Len(@) - 1),
                                      !.left = Append(@, Left(sc, r.cwd))]
    /\ UNCHANGED last
    /\ CwdFrame

\* `with self.as_cwd(): body` as load (op "load") and dump (op "dump") run
\* it on the sandbox at p, with a manager of their own; the body, which never
\* changes the working directory itself, ends or raises
WithAsCwd(op, p, bodyok) ==
    /\ \E en \in {MgrEnter(fs, Manager(p), cwd)} :
       \E ex \in {IF en.ok THEN MgrExit(fs, en.mgr, en.cwd) ELSE en} :
          /\ cwd' = ex.cwd
          /\ last' = Outcome(op, IF ~en.ok \/ ~ex.ok THEN "OSError"
                                 ELSE IF bodyok THEN "ok" ELSE "raised",
                             "unset", <<>>, 0)
    /\ UNCHANGED <<mgrs, scopes>>
    /\ CwdFrame

CwdNext ==
    \/ \E i \in 1..3 : ScopeEnter(i)
    \/ ScopeExit
    \/ \E op \in {"load", "dump"}, p \in {S_o_tmp, S_p_tmp, S_q_tmp}, bodyok \in BOOLEAN :
          WithAsCwd(op, p, bodyok)

CwdSpec == CwdInit /\ [][CwdNext]_vars

Next ==
    \/ \E inner \in InnerNames, del \in DeletionArgs : Create(inner, del)
    \/ \E archive \in Archives, inner \in InnerNames, del \in DeletionArgs :
          Load(archive, inner, del)
    \/ WithEnter
    \/ \E how \in CloseCallers : CloseCall(how)
    \/ CloseRename
    \/ CloseEraseTmp
    \/ CloseEraseOuter

Spec == Init /\ [][Next]_vars

\* `with d.as_cwd(): body` run by the caller on an instance
AsCwd(bodyok) ==
    /\ pc = "idle"
    /\ obj = "ready"
    /\ WithAsCwd("as_cwd", path, bodyok)

\* The life of an instance with every operation the caller has: the
\* constructor and load, the with block, as_cwd, dump and close
PolicyNext ==
    \/ \E inner \in InnerNames, del \in DeletionArgs : Create(inner, del)
    \/ \E archive \in {a \in Archives : Len(a) <= 1}, inner \in InnerNames,
          del \in DeletionArgs : Load(archive, inner, del)
    \/ WithEnter
    \/ \E how \in CloseCallers : CloseCall(how)
    \/ CloseRename
    \/ CloseEraseTmp
    \/ CloseEraseOuter
    \/ \E compression \in ArchiveKinds : Dump(compression)
    \/ \E bodyok \in BOOLEAN : AsCwd(bodyok)

PolicySpec == Init /\ [][PolicyNext]_vars

\* A sandbox is created, filled by the caller and dumped
DumpNext ==
    \/ \E inner \in InnerNames, del \in DeletionArgs : Create(inner, del)
    \/ \E name \in NodeNames, node \in {DirNode, FileNode(S_hi), FileNode(S_evil)} :
          Populate(name, node)
    \/ \E compression \in ArchiveKinds : Dump(compression)

DumpSpec == Init /\ [][DumpNext]_vars

-----------------------------------------------------------------------------
(* Properties *)

\* an instance whose constructor returned
Constructed == obj \in {"ready", "orphan"}

\* the calls of log that erase
EraseCalls == {"srm", "pseudo", "rmtree"}

\* the absolute path load computes for member name under the root
Resolved(name) == AbsPath(path, PathJoin(path, name))

\* C1: between operations, the directory behind self.path exists exactly
\* when the instance is open (self.closed is False).
C1_StorageIffOpen ==
    (pc = "idle" /\ Constructed) => ((path \in DOMAIN fs) <=> ~closed)

\* C2: a load (successful or not) leaves every path outside the sandbox root
\* as it was: nothing outside the root is created, removed or rewritten,
\* the container the constructor allocates for the root apart.
C2_LoadStaysInside ==
    [][(last.op = "none" /\ last'.op = "load") =>
          \A q \in DOMAIN fs \cup DOMAIN fs' :
              \/ (path' # EMPTY /\ Under(q, path'))
              \/ q = outer_path'
              \/ (q \in DOMAIN fs /\ q \in DOMAIN fs' /\ fs[q] = fs'[q])]_vars

\* C3: load lets a member through exactly when its normalized resolution is
\* the root or lies beneath it component by component: every member load
\* went past resolves under the root, and the member a load rejected with
\* ValueError does not.
C3_CheckIsComponentwise ==
    (last.op = "load" /\ Constructed) =>
        /\ \A i \in 1..Len(last.archive) :
               (last.k = 0 \/ i < last.k) => Under(Resolved(last.archive[i].name), path)
        /\ last.result = "ValueError" =>
               ~Under(Resolved(last.archive[last.k].name), path)

\* C4: when create has succeeded the root exists and is empty; when a close
\* has returned, the root, the outer container and the relocation container
\* are all gone.
C4_CreateEmptyCloseGone ==
    /\ (last.op = "create" /\ last.result = "ok") =>
           (path \in DOMAIN fs /\ Children(fs, path) = {})
    /\ (pc = "idle" /\ Constructed /\ last.op \in CloseCallers /\ last.result = "ok") =>
           /\ path \notin DOMAIN fs
           /\ outer_path \notin DOMAIN fs
           /\ (tmp_path # EMPTY => tmp_path \notin DOMAIN fs)

\* C5 (as claimed): once close() has been called, every further call makes
\* no filesystem change and raises nothing.
C5_LaterCallsAreNoOps ==
    [][(pc = "idle" /\ last.op \in CloseCallers) =>
          (fs' = fs /\ pc' = "idle" /\ last'.result = "ok")]_vars

\* C5 (amended): erasure is started at most once; once a close() has
\* completed the rename (self.closed is True) every further call changes
\* nothing on the filesystem or in the instance and raises nothing; and a
\* closed instance never becomes open again.
C5_IdempotentOnceRelocated ==
    /\ [](nerase <= 1)
    /\ [][(obj # "none" /\ closed) => closed']_vars
    /\ [][(pc = "idle" /\ Constructed /\ closed) =>
             /\ fs' = fs
             /\ pc' = "idle"
             /\ last'.result = "ok"
             /\ log' = <<>>
             /\ <<closed', path', deletion', outer_path'>> = <<closed, path, deletion, outer_path>>]_vars

\* a second close() call has returned on an instance the first one closed
C5_Witness ==
    /\ pc = "idle" /\ Constructed /\ closed /\ nerase = 1
    /\ last.op \in CloseCallers /\ last.result = "ok" /\ log = <<>>

\* C6: under 'not-secure' close() erases by ordinary recursive removal and
\* never runs the external srm command.
C6_NotSecureNeverRunsSrm ==
    (Constructed /\ deletion = "not-secure" /\ last.op \in CloseCallers) =>
        \A i \in DOMAIN log : log[i].call # "srm"

\* C7: the policy is resolved by the constructor against the availability
\* of srm: 'secure' without the tool fails before anything is allocated and
\* with it stays 'secure'; 'attempt-secure' becomes 'secure' or
\* 'pseudo-secure' and never fails on the probe; 'pseudo-secure' and
\* 'not-secure' are stored as given, without a probe.
C7_PolicyResolvedAtConstruction ==
    (last.op \in {"create", "load"}) =>
        /\ (last.deletion = "secure" /\ ~srm) =>
               /\ last.result = "CalledProcessError"
               /\ obj = "partial"
               /\ fs = InitFs
               /\ \A i \in DOMAIN log : log[i].call # "mkdtemp"
        /\ (last.deletion = "secure" /\ srm) =>
               (deletion = "secure" /\ last.result # "CalledProcessError")
        /\ last.deletion = "attempt-secure" =>
               /\ last.result # "CalledProcessError"
               /\ deletion = IF srm THEN "secure" ELSE "pseudo-secure"
        /\ last.deletion \in {"pseudo-secure", "not-secure"} =>
               /\ deletion = last.deletion
               /\ \A i \in DOMAIN log : log[i].call # "which"
        /\ last.deletion \in {"secure", "attempt-secure"} =>
               (log # <<>> /\ log[1].call = "which")

\* 'attempt-secure' was given without the tool and the instance is open
\* with the degraded policy
C7_Witness ==
    /\ last.op = "create" /\ last.deletion = "attempt-secure" /\ ~srm
    /\ obj = "ready" /\ ~closed /\ deletion = "pseudo-secure"

\* C8: a constructor that raised has left no directory behind; one that
\* returned has left the instance open.
C8_ConstructionAtomic ==
    /\ (last.op \in {"create", "load"} /\ obj = "partial") => fs = InitFs
    /\ (last.op = "create" /\ last.result = "ok") => (obj = "ready" /\ ~closed)

\* C9: when load stops at member k, no member from k on has been extracted,
\* the error of member k is what load raised, and the sandbox load created
\* is gone when load returns.
C9_FailedLoadErased ==
    (last.op = "load" /\ obj = "orphan") =>
        /\ last.k \in 1..Len(last.archive)
        /\ last.result \in {"ValueError", "OSError", "IOError"}
        /\ \A i \in DOMAIN log : log[i].call = "extract" =>
               \E j \in 1..(last.k) : log[i].arg = last.archive[j].name
        /\ path \notin DOMAIN fs
        /\ outer_path \notin DOMAIN fs

\* C10: in a close() of an open instance the rename to a fresh, unused
\* location comes first: the relocation container is new and empty when the
\* rename is due, no erasing call is made before a successful rename, and
\* once the rename is done the original root path no longer exists while
\* the contents sit at the new self.path.
C10_RenameBeforeErase ==
    /\ pc = "rename" =>
           /\ ~closed
           /\ Children(fs, tmp_path) = {}
           /\ tmp_path # outer_path /\ ~Under(tmp_path, path) /\ ~Under(path, tmp_path)
           /\ \A i \in DOMAIN log : log[i].call \notin EraseCalls
    /\ pc \in {"erase_tmp", "erase_outer"} =>
           /\ closed
           /\ old_path \notin DOMAIN fs
           /\ Tree(fs, old_path) = {}
           /\ Len(log) >= 2 /\ log[1].call = "mkdtemp" /\ log[2] = Call("rename", old_path, TRUE)
    /\ pc = "erase_tmp" =>
           /\ Parent(path) = tmp_path
           /\ path \in DOMAIN fs
           /\ Children(fs, tmp_path) = {path}
    /\ (last.op \in CloseCallers) =>
           \A i \in DOMAIN log : log[i].call \in EraseCalls =>
               \E j \in 1..(i - 1) : log[j] = Call("rename", old_path, TRUE)

\* a sandbox with contents has just been renamed and nothing is erased yet
C10_Witness ==
    /\ pc = "erase_tmp"
    /\ Children(fs, path) # {}
    /\ old_path \notin DOMAIN fs

\* C11: while a "with d:" block on an open instance runs, the working
\* directory is the sandbox root; when the block has ended the working
\* directory is the one in force before it and the instance is closed.
C11_WithBlockScopesCwd ==
    /\ (inwith /\ pc = "idle" /\ ~closed) => cwd = path
    /\ (last.op = "__exit__" /\ pc = "idle") => (~inwith /\ closed /\ cwd = SLASH)

\* C12 (as claimed): a dump followed by a load of the stream into a fresh
\* sandbox gives the same relative paths (directories included) and the same
\* bytes for every file, for every archive kind.
C12_RoundTripSamePaths ==
    (last.op = "dump" /\ last.result = "ok") =>
        LoadStream(InitFs, dumped, dumped.kind) = [result |-> "ok", tree |-> RelTree(fs, path)]

\* C12 (amended): the load succeeds and gives the same files with the same
\* bytes for every archive kind; for tar, gz and bz2 it also gives the same
\* directories; for zip it gives exactly the directories that hold a file
\* at some depth.
C12_RoundTripFiles ==
    LET IsFile(n) == n.kind = "file"
        Holds(orig, d) == \E n \in orig : IsFile(n) /\ StartsWith(n.rel, d.rel \o SLASH)
        Same(orig, got) ==
            /\ got.result = "ok"
            /\ {n \in got.tree : IsFile(n)} = {n \in orig : IsFile(n)}
            /\ IF dumped.kind = "zip"
               THEN {d \in got.tree : ~IsFile(d)} = {d \in orig : ~IsFile(d) /\ Holds(orig, d)}
               ELSE got.tree = orig
    IN  (last.op = "dump" /\ last.result = "ok") =>
            Same(RelTree(fs, path), LoadStream(InitFs, dumped, dumped.kind))

\* a sandbox with a file inside a directory and an empty directory has been
\* dumped as zip, and the stream loads
C12_Witness ==
    /\ last.op = "dump" /\ last.result = "ok" /\ dumped.kind = "zip"
    /\ \E q \in Tree(fs, path) : fs[q].kind = "file" /\ Parent(q) # path
    /\ \E q \in Tree(fs, path) : q # path /\ fs[q].kind = "dir" /\ Children(fs, q) = {}
    /\ LoadStream(InitFs, dumped, "zip").result = "ok"

\* the members of the dumped stream as a reader gets them, each under its
\* normalized name
DumpedNodes ==
    LET Nodes(rd) ==
            {[rel |-> NormPath(rd.members[i].name), kind |-> rd.members[i].kind,
              data |-> rd.members[i].data] : i \in DOMAIN rd.members}
    IN  Nodes(ReadMembers(dumped, IF dumped = <<>> THEN "" ELSE dumped.kind))

\* C20: what a dump has written, read back member by member, is every
\* file and (for tar, gz, bz2) every directory beneath the sandbox root,
\* each under its path relative to the root and with its bytes; for zip it
\* is the files only.  The dump changes neither the filesystem nor the
\* instance, which stays open.
C20_DumpWritesTree ==
    /\ []((last.op = "dump" /\ last.result = "ok") =>
             DumpedNodes = IF dumped.kind = "zip"
                           THEN {n \in RelTree(fs, path) : n.kind = "file"}
                           ELSE RelTree(fs, path))
    /\ [][last'.op = "dump" =>
             <<fs', obj', closed', path', outer_path', deletion', cwd'>>
                 = <<fs, obj, closed, path, outer_path, deletion, cwd>>]_vars

\* a sandbox with a file inside a directory and an empty directory has been
\* dumped as a gz-compressed tar and is still open
C20_Witness ==
    /\ last.op = "dump" /\ last.result = "ok" /\ dumped.kind = "gz" /\ ~closed
    /\ \E q \in Tree(fs, path) : fs[q].kind = "file" /\ Parent(q) # path
    /\ \E q \in Tree(fs, path) : q # path /\ fs[q].kind = "dir" /\ Children(fs, q) = {}
    /\ Len(dumped.members) >= 3

\* the kind the extension table gives a name, "none" when it gives none
KindOfExtension(ext) ==
    IF ext = <<".", "t", "a", "r">> THEN "tar"
    ELSE IF ext \in {<<".", "t", "g", "z">>, <<".", "g", "z">>, <<".", "g", "z", "i", "p">>}
         THEN "gz"
    ELSE IF ext \in {<<".", "t", "b", "z">>, <<".", "t", "b", "z", "2">>,
                     <<".", "t", "b", "2">>, <<".", "b", "z", "2">>} THEN "bz2"
    ELSE IF ext = <<".", "z", "i", "p">> THEN "zip"
    ELSE "none"

\* the kind the bytes from position start on stand for, "none" when they
\* carry no magic number
KindOfBytes(data, start) ==
    IF Len(data) >= start + 2 /\ data[start + 1] = "1F" /\ data[start + 2] = "8B" THEN "gz"
    ELSE IF Len(data) >= start + 2 /\ data[start + 1] = "B" /\ data[start + 2] = "Z" THEN "bz2"
    ELSE IF Len(data) >= start + 2 /\ data[start + 1] = "P" /\ data[start + 2] = "K" THEN "zip"
    ELSE IF Len(data) >= start + 262
            /\ \A i \in 1..5 : data[start + 257 + i] = <<"u", "s", "t", "a", "r">>[i] THEN "tar"
    ELSE "none"

\* the stream sniff_archive_type looked at has a name with a table extension
NameDecides ==
    stream.hasname /\ KindOfExtension(SplitExt(stream.name)) # "none"

\* the stream sniff_archive_type looked at lets its leading bytes be read
BytesReadable == stream.seekable /\ stream.readable

\* C13: sniff_archive_type decides in a fixed order: a name with an extension
\* of the table gets the table's kind; otherwise a stream whose leading bytes
\* can be read gets gz for 1F 8B, bz2 for BZ, zip for PK and tar for "ustar"
\* at offset 257; otherwise the default of the caller is returned.  So a
\* stream named x.zip whose bytes cannot be read is zip, and a stream without
\* a name and without a magic number gets the default.
C13_SniffOrder ==
    sniffed.by = "sniff_archive_type" =>
        /\ sniffed.kind =
              IF NameDecides THEN KindOfExtension(SplitExt(stream.name))
              ELSE IF BytesReadable /\ KindOfBytes(stream.data, sniffed.start) # "none"
                   THEN KindOfBytes(stream.data, sniffed.start)
              ELSE sniffed.default
        /\ (stream.hasname /\ stream.name = <<"x", ".", "z", "i", "p">> /\ ~BytesReadable)
              => sniffed.kind = "zip"
        /\ (~stream.hasname /\ KindOfBytes(stream.data, sniffed.start) = "none")
              => sniffed.kind = sniffed.default

\* a stream named x.zip that starts with the gzip magic was sniffed: the
\* name decided
C13_Witness ==
    /\ sniffed.by = "sniff_archive_type"
    /\ stream.hasname /\ BytesReadable
    /\ stream.name = <<"x", ".", "z", "i", "p">>
    /\ KindOfBytes(stream.data, sniffed.start) = "gz"
    /\ sniffed.kind = "zip"

\* the two bytes at the position the stream was handed over at are 1F 8B
StartsWithGzipMagic ==
    ReadBytes(stream.data, sniffed.start, 2) = <<"1F", "8B">>

\* C14 as stated: a readable stream that begins with 1F 8B is detected as gz
\* whatever its name is, also when the extension of the name maps to another
\* kind
C14_GzipRegardlessOfName ==
    (sniffed.by = "sniff_archive_type" /\ BytesReadable /\ StartsWithGzipMagic)
        => sniffed.kind = "gz"

\* C14: a readable stream that begins with 1F 8B is detected as gz when it
\* has no name or the extension of its name is not in the table; a name with
\* a table extension gets the kind of the table instead
C14_GzipUnlessNameDecides ==
    (sniffed.by = "sniff_archive_type" /\ BytesReadable /\ StartsWithGzipMagic)
        => sniffed.kind = IF NameDecides THEN KindOfExtension(SplitExt(stream.name))
                          ELSE "gz"

\* a stream without a name that stands at position 1, before 1F 8B, was
\* sniffed with the default tar, and found to be gz
C14_Witness ==
    /\ sniffed.by = "sniff_archive_type"
    /\ BytesReadable /\ StartsWithGzipMagic
    /\ ~stream.hasname
    /\ sniffed.start = 1
    /\ sniffed.default = "tar"
    /\ sniffed.kind = "gz"

\* C15: detecting the kind of a stream leaves the stream where it was: after
\* the detection, however it was decided and however short the stream is, the
\* read position is the position before it
C15_PositionRestored ==
    sniffed.by # "none" => stream.pos = sniffed.start

\* the loop a call of the erasure belongs to; shutil.rmtree comes fourth
Rank(op) ==
    IF op = "zero" THEN 1
    ELSE IF op = "rename" THEN 2
    ELSE IF op \in {"remove", "rmdir"} THEN 3
    ELSE 4

\* the entries below the erased directory, and the regular files among them
EntriesBelow(f) == Tree(f, EraseTop) \ {EraseTop}
RegularFiles(f) == {q \in EntriesBelow(f) : f[q].kind = "file"}

\* a call of loop r or of a later one has been made
Reached(r) == \E i \in 1..Len(events) : Rank(events[i].op) >= r

\* C16: pseudo-secure erasure runs in three ordered phases.  No call of a
\* phase comes after a call of a later one.  Once an entry is renamed every
\* regular file of the tree has been overwritten, and holds zeros only.  No
\* directory is renamed before an entry below it, and once an entry is
\* removed every entry of the tree has been renamed.  No directory is
\* removed before an entry below it, and the root goes last.  When the
\* function has returned nothing of the tree exists, under any name.
C16_ThreeOrderedPhases ==
    /\ \A i, j \in 1..Len(events) :
          i < j => /\ Rank(events[i].op) <= Rank(events[j].op)
                   /\ (events[i].path # events[j].path /\ Rank(events[i].op) = Rank(events[j].op))
                         => ~Under(events[j].path, events[i].path)
    /\ Reached(2) =>
          /\ \A q \in RegularFiles(tree0) :
                \E i \in 1..Len(events) : events[i].op = "zero" /\ events[i].path = q
          /\ \A q \in RegularFiles(tree) : tree[q].data = Zeros(Len(tree[q].data))
    /\ Reached(3) =>
          \A q \in EntriesBelow(tree0) :
             \E i \in 1..Len(events) : events[i].op = "rename" /\ events[i].path = q
    /\ \A i \in 1..Len(events) :
          events[i].op = "rmtree" => i = Len(events) /\ events[i].path = EraseTop
    /\ phase = "done" =>
          /\ Tree(tree, EraseTop) = {}
          /\ DOMAIN tree = DOMAIN tree0 \ Tree(tree0, EraseTop)
          /\ events[Len(events)].op = "rmtree"

\* the erasure of a directory that held a sub-directory with a file in it
\* has returned
C16_Witness ==
    /\ phase = "done"
    /\ \E q \in RegularFiles(tree0) :
          /\ Parent(q) # EraseTop
          /\ tree0[q].data = S_hi
          /\ \E i, j, k \in 1..Len(events) :
                /\ events[i].op = "zero" /\ events[i].path = q
                /\ events[j].op = "rename" /\ events[j].path = q
                /\ events[k].op = "rmdir" /\ i < j /\ j < k

\* the entries below the erased directory are as many as at the start
SameEntryCount ==
    Cardinality(EntriesBelow(tree)) = Cardinality(EntriesBelow(tree0))

\* C18: in the rename phase a random name that is already in use in the
\* directory is never given: no rename replaces an existing entry, and
\* until the first removal the tree holds as many entries as before
C18_NoRenameReplaces ==
    /\ \A i \in 1..Len(events) : events[i].op = "rename" => ~events[i].replaced
    /\ (phase \in {"zero", "rename", "delete"} /\ ~Reached(3)) => SameEntryCount

\* the write calls of the overwrite loop, in their order
ZeroWrites == SelectSeq(zero.calls, LAMBDA c : c.op = "write")

\* What holds at every step of the overwrite loop of a file of size S: the
\* length stays S; the calls are write, flush, fsync in turn; every write has
\* 1 to 1024 bytes, the first at offset 0 and each at the end of the one
\* before; when a write is made nothing of the chunks before is unflushed or
\* unsynced; and once the loop has ended it has made ceil(S / 1024)
\* iterations and written S bytes, and every byte of the file is zero.
ZeroLoopOk ==
    /\ Len(zero.data) = Len(zero.data0)
    /\ \A i \in 1..Len(zero.calls) :
          zero.calls[i].op = <<"write", "flush", "fsync">>[((i - 1) % 3) + 1]
    /\ \A k \in 1..Len(ZeroWrites) :
          /\ ZeroWrites[k].n >= 1 /\ ZeroWrites[k].n <= 1024
          /\ ZeroWrites[k].at = IF k = 1 THEN 0 ELSE ZeroWrites[k - 1].at + ZeroWrites[k - 1].n
    /\ zero.pc = "flush" => zero.unflushed = zero.n /\ zero.unsynced = 0
    /\ zero.pc = "while" => zero.unflushed = 0 /\ zero.unsynced = 0
    /\ zero.pc = "closed" =>
          /\ zero.iters = (Len(zero.data0) + 1023) \div 1024
          /\ Len(ZeroWrites) = zero.iters
          /\ Len(zero.calls) = 3 * zero.iters
          /\ zero.pos = Len(zero.data0)
          /\ zero.unflushed = 0 /\ zero.unsynced = 0
          /\ \A i \in 1..Len(zero.data) : zero.data[i] = "0"

\* C17: for a file of any size S >= 0 the overwrite loop ends, after
\* ceil(S / 1024) iterations; it writes exactly S zero bytes from offset 0 on
\* in chunks of at most 1024 bytes, flushes and syncs each chunk before the
\* next is written, and leaves the file S bytes long and all zero.
C17_OverwriteLoop == []ZeroLoopOk /\ <>(zero.pc = "closed")

\* a file of two chunks and one byte has been overwritten in three iterations
C17_Witness ==
    /\ zero.pc = "closed"
    /\ Len(zero.data0) = 2049
    /\ zero.data0[2049] = "y"
    /\ zero.iters = 3
    /\ ZeroWrites[3] = FileCall("write", 2048, 1)

\* every scope that was left gave back the working directory of its enter
ScopesRestored ==
    \A k \in 1..Len(scopes.left) : scopes.left[k].restored = scopes.left[k].saved

\* C19: working-directory scoping is stack-disciplined.  Every exit of an
\* as_cwd scope, of one sandbox inside another or of one manager entered
\* again, brings back the working directory that was in force before the
\* matching enter; and a `with self.as_cwd()` block as load and dump run it
\* leaves the working directory as it was, whether its body ends or raises.
C19_ScopesRestoreCwd ==
    /\ []ScopesRestored
    /\ [][(last'.op \in {"load", "dump"} /\ scopes' = scopes /\ mgrs' = mgrs)
             => cwd' = cwd]_vars

\* one manager was entered twice, a scope of the other sandbox was opened
\* and left inside, and all three scopes have been left
C19_Witness ==
    /\ scopes.open = <<>>
    /\ Len(scopes.left) = 3
    /\ scopes.left[1].m = 2 /\ scopes.left[2].m = 1 /\ scopes.left[3].m = 1
    /\ scopes.left[1].saved = S_o_tmp /\ scopes.left[2].saved = S_o_tmp
    /\ scopes.left[3].saved = S_etc
    /\ cwd = S_etc
    /\ last.op = "dump" /\ last.result = "raised"

\* an instance that is Open stores one of the three resolved policies
OpenPolicyResolved ==
    (Constructed /\ ~closed) => deletion \in {"secure", "pseudo-secure", "not-secure"}

\* a step of the constructor, called directly or by load
ConstructorStep == obj = "none" /\ obj' # "none"

\* the deletion argument of the constructor step is none of the four values
ArgumentRejected ==
    last'.deletion \notin {"secure", "attempt-secure", "pseudo-secure", "not-secure"}

C22_NoDuplicateEntries ==
    (last.op = "dump" /\ last.result = "ok") =>
        \A i, j \in DOMAIN dumped.members :
            i # j => NormPath(dumped.members[i].name) # NormPath(dumped.members[j].name)

====
